---------------------------- MODULE Spec2Model ----------------------------
(***************************************************************************)
(* A model of lapack-ts: the strided matrix view (utils/matrix), and the   *)
(* DGESV solver with its DGETRF / DGETRS engines (linear-equations/dgesv). *)
(*                                                                         *)
(* Numbers are IEEE-754 binary floating-point values, as the typed arrays  *)
(* of the source hold them: a value is sign * mantissa * 2^exponent with   *)
(* an odd mantissa of at most 53 bits (Float64Array) or 24 bits            *)
(* (Float32Array), and every arithmetic operation is the exact result      *)
(* rounded to nearest, ties to even.  The exponent range is not bounded    *)
(* (no overflow to Infinity, no subnormals), zero has no sign, and NaN and *)
(* the infinities appear only as the single value FNonFinite, the result   *)
(* of a division by zero.                                                  *)
(***************************************************************************)
EXTENDS Integers, Sequences, FiniteSets, TLC

(***************************************************************************)
(* Natural numbers of any size: little-endian sequences of limbs in        *)
(* 0..Radix-1 with no most-significant zero limb; <<>> is zero.  TLC's     *)
(* integers are 32 bits wide, a 53-bit mantissa is not.                    *)
(***************************************************************************)
LimbBits == 3 * 5

Radix == 2^LimbBits

BZero == <<>>

RECURSIVE BTrim(_)
BTrim(a) ==
    IF a = <<>> THEN <<>>
    ELSE IF a[Len(a)] = 0 THEN BTrim(SubSeq(a, 1, Len(a) - 1))
    ELSE a

BigOf(n) ==
    IF n = 0 THEN <<>>
    ELSE IF n < Radix THEN <<n>>
    ELSE IF n < Radix * Radix THEN <<n % Radix, n \div Radix>>
    ELSE <<n % Radix, (n \div Radix) % Radix, n \div (Radix * Radix)>>

Limb(a, i) == IF i <= Len(a) THEN a[i] ELSE 0

MaxOf(x, y) == IF x >= y THEN x ELSE y

MinOf(x, y) == IF x <= y THEN x ELSE y

RECURSIVE BAddC(_, _, _, _)
BAddC(a, b, i, c) ==
    IF i > Len(a) /\ i > Len(b)
    THEN IF c = 0 THEN <<>> ELSE <<c>>
    ELSE LET t == Limb(a, i) + Limb(b, i) + c
         IN  <<t % Radix>> \o BAddC(a, b, i + 1, t \div Radix)

BAdd(a, b) == BAddC(a, b, 1, 0)

\* a - b for a >= b
RECURSIVE BSubC(_, _, _, _)
BSubC(a, b, i, c) ==
    IF i > Len(a) THEN <<>>
    ELSE LET t == a[i] - Limb(b, i) - c
         IN  IF t < 0 THEN <<t + Radix>> \o BSubC(a, b, i + 1, 1)
             ELSE <<t>> \o BSubC(a, b, i + 1, 0)

BSub(a, b) == BTrim(BSubC(a, b, 1, 0))

RECURSIVE BCmpAt(_, _, _)
BCmpAt(a, b, i) ==
    IF i = 0 THEN 0
    ELSE IF a[i] > b[i] THEN 1
    ELSE IF a[i] < b[i] THEN -1
    ELSE BCmpAt(a, b, i - 1)

\* -1, 0, 1 as a < b, a = b, a > b
BCmp(a, b) ==
    IF Len(a) > Len(b) THEN 1
    ELSE IF Len(a) < Len(b) THEN -1
    ELSE BCmpAt(a, b, Len(a))

RECURSIVE BMulSmallC(_, _, _, _)
BMulSmallC(a, d, i, c) ==
    IF i > Len(a)
    THEN IF c = 0 THEN <<>> ELSE <<c>>
    ELSE LET t == a[i] * d + c
         IN  <<t % Radix>> \o BMulSmallC(a, d, i + 1, t \div Radix)

\* a * d for 0 <= d < Radix
BMulSmall(a, d) == IF d = 0 THEN <<>> ELSE BMulSmallC(a, d, 1, 0)

RECURSIVE BMulAt(_, _, _)
BMulAt(a, b, i) ==
    IF i > Len(a) THEN <<>>
    ELSE LET rest == BMulAt(a, b, i + 1)
             shifted == IF rest = <<>> THEN <<>> ELSE <<0>> \o rest
         IN  BAdd(BMulSmall(b, a[i]), shifted)

BMul(a, b) == IF a = <<>> \/ b = <<>> THEN <<>> ELSE BMulAt(a, b, 1)

\* <<quotient limbs (big-endian order reversed below), remainder>> of a / d, 0 < d < Radix
RECURSIVE BDivSmallAt(_, _, _)
BDivSmallAt(a, d, i) ==
    IF i > Len(a) THEN [q |-> <<>>, r |-> 0]
    ELSE LET hi == BDivSmallAt(a, d, i + 1)
             cur == hi.r * Radix + a[i]
         IN  [q |-> <<cur \div d>> \o hi.q, r |-> cur % d]

BDivSmall(a, d) == BTrim(BDivSmallAt(a, d, 1).q)

BModSmall(a, d) == BDivSmallAt(a, d, 1).r

TopBits(x) ==
    CHOOSE n \in 0..LimbBits : (x = 0 /\ n = 0) \/ (n > 0 /\ 2^(n-1) <= x /\ x < 2^n)

BBitLen(a) == IF a = <<>> THEN 0 ELSE LimbBits * (Len(a) - 1) + TopBits(a[Len(a)])

Zeros(q) == [i \in 1..q |-> 0]

\* a * 2^k
BShl(a, k) ==
    IF a = <<>> THEN <<>>
    ELSE Zeros(k \div LimbBits) \o BMulSmall(a, 2^(k % LimbBits))

\* floor(a / 2^k)
BShr(a, k) ==
    LET q == k \div LimbBits
    IN  IF q >= Len(a) THEN <<>>
        ELSE BDivSmall(SubSeq(a, q + 1, Len(a)), 2^(k % LimbBits))

\* bit i (0 = least significant) of a
BBit(a, i) == (Limb(a, i \div LimbBits + 1) \div 2^(i % LimbBits)) % 2

\* the k low bits of a are all zero
BLowZero(a, k) ==
    /\ \A i \in 1..MinOf(k \div LimbBits, Len(a)) : a[i] = 0
    /\ Limb(a, k \div LimbBits + 1) % 2^(k % LimbBits) = 0

LowZeroBits(x) == CHOOSE n \in 0..LimbBits : x % 2^n = 0 /\ (x \div 2^n) % 2 = 1

\* number of trailing zero bits of a # 0
BTrailingZeros(a) ==
    LET i == CHOOSE j \in 1..Len(a) : a[j] # 0 /\ \A h \in 1..(j-1) : a[h] = 0
    IN  LimbBits * (i - 1) + LowZeroBits(a[i])

\* the largest d in lo..hi with b * d <= cur (b * lo <= cur is given)
RECURSIVE BDigit(_, _, _, _)
BDigit(cur, b, lo, hi) ==
    IF lo = hi THEN lo
    ELSE LET mid == (lo + hi + 1) \div 2
         IN  IF BCmp(BMulSmall(b, mid), cur) <= 0
             THEN BDigit(cur, b, mid, hi)
             ELSE BDigit(cur, b, lo, mid - 1)

\* long division, limb by limb from the most significant limb of a:
\* [q, r] with a = q*b + r and r < b
RECURSIVE BDivModAt(_, _, _)
BDivModAt(a, b, i) ==
    IF i > Len(a) THEN [q |-> <<>>, r |-> <<>>]
    ELSE LET hi  == BDivModAt(a, b, i + 1)
             cur == BTrim(<<a[i]>> \o hi.r)
             d   == BDigit(cur, b, 0, Radix - 1)
         IN  [q |-> <<d>> \o hi.q, r |-> BSub(cur, BMulSmall(b, d))]

BDivMod(a, b) ==
    IF Len(b) = 1
    THEN LET s == BDivSmallAt(a, b[1], 1) IN [q |-> BTrim(s.q), r |-> BigOf(s.r)]
    ELSE LET s == BDivModAt(a, b, 1) IN [q |-> BTrim(s.q), r |-> s.r]

(***************************************************************************)
(* Floating-point values.  A finite value is [s, m, e]: sign s in          *)
(* {-1, 0, 1}, mantissa m (a natural number, odd unless the value is       *)
(* zero), exponent e; it stands for s * m * 2^e, and each value has one    *)
(* representation.  Float64Bits and Float32Bits are the significand widths *)
(* of the two element types of a Matrix.                                   *)
(***************************************************************************)
Float64Bits == 53

Float32Bits == 24

FZero == [s |-> 0, m |-> <<>>, e |-> 0]

\* Infinity, -Infinity or NaN: what a division by zero yields
FNonFinite == [s |-> 2, m |-> <<>>, e |-> 0]

IsFinite(x) == x.s # 2

\* the value s * m * 2^e in its one representation (exact, any width)
FNorm(s, m, e) ==
    IF m = <<>> \/ s = 0 THEN FZero
    ELSE LET tz == BTrailingZeros(m)
         IN  [s |-> s, m |-> BShr(m, tz), e |-> e + tz]

\* s * (m + d) * 2^e rounded to p significant bits, to nearest, ties to even;
\* 0 <= d < 1, and d # 0 exactly when sticky (then m has more than p bits)
FRound(s, m, e, sticky, p) ==
    LET len == BBitLen(m)
    IN  IF len <= p THEN FNorm(s, m, e)
        ELSE LET k    == len - p
                 q    == BShr(m, k)
                 half == BBit(m, k - 1) = 1
                 rest == sticky \/ ~BLowZero(m, k - 1)
                 up   == half /\ (rest \/ BBit(q, 0) = 1)
             IN  FNorm(s, IF up THEN BAdd(q, <<1>>) ELSE q, e + k)

\* the double nearest to x: Math.fround is FToPrecision(x, Float32Bits)
FToPrecision(x, p) == IF IsFinite(x) THEN FRound(x.s, x.m, x.e, FALSE, p) ELSE x

Abs(n) == IF n < 0 THEN -n ELSE n

Sign(n) == IF n < 0 THEN -1 ELSE IF n > 0 THEN 1 ELSE 0

\* the number n, |n| < 2^31, as a double (exact)
FromInt(n) == FNorm(Sign(n), BigOf(Abs(n)), 0)

FIsZero(x) == x.s = 0

FNeg(x) == IF IsFinite(x) THEN [x EXCEPT !.s = -x.s] ELSE x

\* Math.abs
FAbs(x) == IF IsFinite(x) THEN [x EXCEPT !.s = x.s * x.s] ELSE x

\* the exact sum x + y
FAddExact(x, y) ==
    IF ~IsFinite(x) \/ ~IsFinite(y) THEN FNonFinite
    ELSE IF x.s = 0 THEN y
    ELSE IF y.s = 0 THEN x
    ELSE LET e  == MinOf(x.e, y.e)
             mx == BShl(x.m, x.e - e)
             my == BShl(y.m, y.e - e)
             c  == BCmp(mx, my)
         IN  IF x.s = y.s THEN FNorm(x.s, BAdd(mx, my), e)
             ELSE IF c = 0 THEN FZero
             ELSE IF c > 0 THEN FNorm(x.s, BSub(mx, my), e)
             ELSE FNorm(y.s, BSub(my, mx), e)

\* the exact product x * y
FMulExact(x, y) ==
    IF ~IsFinite(x) \/ ~IsFinite(y) THEN FNonFinite
    ELSE IF x.s = 0 \/ y.s = 0 THEN FZero
    ELSE FNorm(x.s * y.s, BMul(x.m, y.m), x.e + y.e)

\* -1, 0, 1 as x < y, x = y, x > y (finite x, y)
FCmp(x, y) == FAddExact(x, FNeg(y)).s

\* the JavaScript operators on numbers: a > b, a - b, a * b, a / b
FGt(x, y) == IsFinite(x) /\ IsFinite(y) /\ FCmp(x, y) = 1

FSub(x, y) == FToPrecision(FAddExact(x, FNeg(y)), Float64Bits)

FMul(x, y) == FToPrecision(FMulExact(x, y), Float64Bits)

FDiv(x, y) ==
    IF ~IsFinite(x) \/ ~IsFinite(y) \/ y.s = 0 THEN FNonFinite
    ELSE IF x.s = 0 THEN FZero
    ELSE LET k  == MaxOf(0, Float64Bits + 2 + BBitLen(y.m) - BBitLen(x.m))
             dm == BDivMod(BShl(x.m, k), y.m)
         IN  FRound(x.s * y.s, dm.q, x.e - y.e - k, dm.r # <<>>, Float64Bits)

(***************************************************************************)
(* Typed arrays and matrix views.  The heap maps a buffer's name to the    *)
(* typed array: its element type and its cells (cell p of the model is     *)
(* index p-1 of the array).  A Matrix is a view: the name of its data      *)
(* buffer, rows, cols, layout and leadingDimension.                        *)
(***************************************************************************)
NoView == [data |-> "none", rows |-> 0, cols |-> 0, layout |-> "column-major",
           leadingDimension |-> 0]

Layouts == {"column-major", "row-major"}

\* what a typed array of the given element type stores when v is written
StoreConv(type, v) ==
    IF type = "Float32Array" THEN FToPrecision(v, Float32Bits) ELSE v

\* new Float64Array(len) / new Float32Array(len), filled with init
NewArray(type, len, init) ==
    [type |-> type, cells |-> [p \in 1..len |-> StoreConv(type, init)]]

\* array[index]: an index outside the array reads undefined
ReadCell(arr, index) ==
    IF index >= 0 /\ index < Len(arr.cells) THEN arr.cells[index + 1] ELSE FNonFinite

\* array[index] = v: a write outside the array is dropped
WriteCell(arr, index, v) ==
    IF index >= 0 /\ index < Len(arr.cells)
    THEN [arr EXCEPT !.cells[index + 1] = StoreConv(arr.type, v)]
    ELSE arr

\* the offset with the two layouts exchanged
OffsetExchanged(matrix, i, j) ==
    IF matrix.layout = "column-major"
    THEN i * matrix.leadingDimension + j
    ELSE j * matrix.leadingDimension + i

Offset(matrix, i, j) ==
    IF matrix.layout = "column-major"
    THEN j * matrix.leadingDimension + i
    ELSE i * matrix.leadingDimension + j

getElement(h, matrix, i, j) == ReadCell(h[matrix.data], Offset(matrix, i, j))

setElement(h, matrix, i, j, value) ==
    [h EXCEPT ![matrix.data] = WriteCell(@, Offset(matrix, i, j), value)]

\* a validateIndices without the column check
IndicesValidRowOnly(matrix, i, j) == i >= 0 /\ i < matrix.rows

\* validateIndices throws exactly when this is false
IndicesValid(matrix, i, j) ==
    /\ ~(i < 0 \/ i >= matrix.rows)
    /\ ~(j < 0 \/ j >= matrix.cols)

\* `options.layout ?? 'column-major'`
LayoutOption(layout) == IF layout = "omitted" THEN "column-major" ELSE layout

\* a createMatrix with the leading dimensions of the two layouts exchanged
createMatrixExchanged(data, rows, cols, layout) ==
    [data |-> data, rows |-> rows, cols |-> cols, layout |-> LayoutOption(layout),
     leadingDimension |-> IF LayoutOption(layout) = "column-major" THEN cols ELSE rows]

\* createMatrix: the view of a rows x cols matrix over buffer data
createMatrix(data, rows, cols, layout) ==
    [data |-> data, rows |-> rows, cols |-> cols, layout |-> LayoutOption(layout),
     leadingDimension |-> IF LayoutOption(layout) = "column-major" THEN rows ELSE cols]

\* a validateParameters that looks at ldb before lda
validateParametersLdbFirst(n, nrhs, lda, ldb) ==
    IF n < 0 THEN -1
    ELSE IF nrhs < 0 THEN -2
    ELSE IF ldb < MaxOf(1, n) THEN -7
    ELSE IF lda < MaxOf(1, n) THEN -4
    ELSE 0

\* validateParameters: 0 when it returns, else the info of the LapackError thrown
validateParameters(n, nrhs, lda, ldb) ==
    IF n < 0 THEN -1
    ELSE IF nrhs < 0 THEN -2
    ELSE IF lda < MaxOf(1, n) THEN -4
    ELSE IF ldb < MaxOf(1, n) THEN -7
    ELSE 0

\* the element-wise loop of copyMatrix, from (i, j) on
RECURSIVE CopyElements(_, _, _, _, _)
CopyElements(h, source, target, i, j) ==
    IF i >= source.rows THEN h
    ELSE IF j >= source.cols THEN CopyElements(h, source, target, i + 1, 0)
    ELSE CopyElements(setElement(h, target, i, j, getElement(h, source, i, j)),
                      source, target, i, j + 1)

\* target.data.set(source.data.subarray(0, count))
ArraySet(h, source, target, count) ==
    LET n == MinOf(MaxOf(count, 0), Len(h[source.data].cells))
    IN  [h EXCEPT ![target.data] =
            [@ EXCEPT !.cells = [p \in 1..Len(@) |->
                IF p <= n THEN StoreConv(h[target.data].type, h[source.data].cells[p])
                ELSE @[p]]]]

\* the direct-copy test of copyMatrix
CopyIsDirect(source, target) ==
    /\ source.layout = target.layout
    /\ source.leadingDimension = target.leadingDimension
    /\ source.leadingDimension = source.rows

\* copyMatrix: the error thrown ("none" when it returns) and the heap after it
copyMatrix(h, source, target) ==
    IF source.rows # target.rows \/ source.cols # target.cols
    THEN [thrown |-> "LapackError", heap |-> h]
    ELSE IF CopyIsDirect(source, target)
    THEN IF MinOf(MaxOf(source.rows * source.cols, 0), Len(h[source.data].cells))
              > Len(h[target.data].cells)
         THEN [thrown |-> "RangeError", heap |-> h]
         ELSE [thrown |-> "none",
               heap |-> ArraySet(h, source, target, source.rows * source.cols)]
    ELSE [thrown |-> "none", heap |-> CopyElements(h, source, target, 0, 0)]

(***************************************************************************)
(* DGETRF: one iteration of the elimination loop, and DGETRS: its three    *)
(* loops.  ipiv is the Int32Array of pivots: ipiv[k+1] of the model is     *)
(* ipiv[k] of the source.                                                  *)
(***************************************************************************)

\* the pivot search of step k, from row i on: [maxRow, maxVal]
\* a pivot search in which a later row of equal magnitude replaces the earlier one
RECURSIVE PivotSearchLast(_, _, _, _, _, _)
PivotSearchLast(h, A_, k_, i, maxRow, maxVal) ==
    IF i >= A_.rows THEN [maxRow |-> maxRow, maxVal |-> maxVal]
    ELSE LET val == FAbs(getElement(h, A_, i, k_))
         IN  IF FCmp(val, maxVal) >= 0
             THEN PivotSearchLast(h, A_, k_, i + 1, i, val)
             ELSE PivotSearchLast(h, A_, k_, i + 1, maxRow, maxVal)

\* dgetrf, "Find pivot": rows i..n-1 of column k
RECURSIVE PivotSearch(_, _, _, _, _, _)
PivotSearch(h, A_, k_, i, maxRow, maxVal) ==
    IF i >= A_.rows THEN [maxRow |-> maxRow, maxVal |-> maxVal]
    ELSE LET val == FAbs(getElement(h, A_, i, k_))
         IN  IF FGt(val, maxVal)
             THEN PivotSearch(h, A_, k_, i + 1, i, val)
             ELSE PivotSearch(h, A_, k_, i + 1, maxRow, maxVal)

\* exchange rows r1 and r2 of matrix over columns j..ncols-1
RECURSIVE SwapRows(_, _, _, _, _, _)
SwapRows(h, matrix, r1, r2, j, ncols) ==
    IF j >= ncols THEN h
    ELSE LET temp == getElement(h, matrix, r1, j)
             h1   == setElement(h, matrix, r1, j, getElement(h, matrix, r2, j))
             h2   == setElement(h1, matrix, r2, j, temp)
         IN  SwapRows(h2, matrix, r1, r2, j + 1, ncols)

\* row i of the elimination of step k: columns j..n-1
RECURSIVE EliminateRow(_, _, _, _, _, _)
EliminateRow(h, A_, k_, i, factor, j) ==
    IF j >= A_.rows THEN h
    ELSE LET newVal == FSub(getElement(h, A_, i, j),
                            FMul(factor, getElement(h, A_, k_, j)))
         IN  EliminateRow(setElement(h, A_, i, j, newVal), A_, k_, i, factor, j + 1)

\* an elimination of step k in every row but row k, those above it included
RECURSIVE GaussJordanRows(_, _, _, _, _)
GaussJordanRows(h, A_, k_, pivot, i) ==
    IF i >= A_.rows THEN h
    ELSE IF i = k_ THEN GaussJordanRows(h, A_, k_, pivot, i + 1)
    ELSE LET factor == FDiv(getElement(h, A_, i, k_), pivot)
             h1     == setElement(h, A_, i, k_, factor)
         IN  GaussJordanRows(EliminateRow(h1, A_, k_, i, factor, k_ + 1), A_, k_, pivot, i + 1)

EliminateAllRows(h, A_, k_, pivot, i) == GaussJordanRows(h, A_, k_, pivot, 0)

\* the elimination of step k: rows i..n-1
RECURSIVE Eliminate(_, _, _, _, _)
Eliminate(h, A_, k_, pivot, i) ==
    IF i >= A_.rows THEN h
    ELSE LET factor == FDiv(getElement(h, A_, i, k_), pivot)
             h1     == setElement(h, A_, i, k_, factor)
         IN  Eliminate(EliminateRow(h1, A_, k_, i, factor, k_ + 1), A_, k_, pivot, i + 1)

\* a dgetrf without the singularity check
PivotNeverZero(maxVal) == FALSE

\* `maxVal === 0`: the matrix is singular
PivotIsZero(maxVal) == FIsZero(maxVal)

\* a dgetrf that records the pivot but leaves the rows where they are
SwapNever(maxRow, k_) == FALSE

\* whether step k swaps rows k and maxRow
SwapNeeded(maxRow, k_) == maxRow # k_

\* a loop body that reports the singular column 0-based
DgetrfBodyZeroBased(h, A_, ipiv_, k_) ==
    LET ps    == PivotSearch(h, A_, k_, k_ + 1, k_, FAbs(getElement(h, A_, k_, k_)))
        ipiv1 == [ipiv_ EXCEPT ![k_ + 1] = ps.maxRow + 1]
    IN  IF PivotIsZero(ps.maxVal)
        THEN [heap |-> h, ipiv |-> ipiv1, info |-> k_]
        ELSE LET h1 == IF SwapNeeded(ps.maxRow, k_)
                       THEN SwapRows(h, A_, k_, ps.maxRow, 0, A_.rows)
                       ELSE h
                 pivot == getElement(h1, A_, k_, k_)
             IN  [heap |-> Eliminate(h1, A_, k_, pivot, k_ + 1),
                  ipiv |-> ipiv1, info |-> 0]

\* the body of dgetrf's loop for k: the heap and ipiv after it, and info = k+1
\* when it returns from the loop on a zero pivot (0 when the loop goes on)
DgetrfBody(h, A_, ipiv_, k_) ==
    LET ps    == PivotSearch(h, A_, k_, k_ + 1, k_, FAbs(getElement(h, A_, k_, k_)))
        ipiv1 == [ipiv_ EXCEPT ![k_ + 1] = ps.maxRow + 1]
    IN  IF PivotIsZero(ps.maxVal)
        THEN [heap |-> h, ipiv |-> ipiv1, info |-> k_ + 1]
        ELSE LET h1 == IF SwapNeeded(ps.maxRow, k_)
                       THEN SwapRows(h, A_, k_, ps.maxRow, 0, A_.rows)
                       ELSE h
                 pivot == getElement(h1, A_, k_, k_)
             IN  [heap |-> Eliminate(h1, A_, k_, pivot, k_ + 1),
                  ipiv |-> ipiv1, info |-> 0]

\* the row interchanges replayed from the last step to the first: steps k_, .., 0
RECURSIVE InterchangeDescending(_, _, _, _, _)
InterchangeDescending(h, B_, ipiv_, n, k_) ==
    IF k_ < 0 \/ k_ >= n THEN h
    ELSE LET pivotRow == ipiv_[n - k_] - 1
             h1 == IF pivotRow # n - 1 - k_
                   THEN SwapRows(h, B_, n - 1 - k_, pivotRow, 0, B_.cols)
                   ELSE h
         IN  InterchangeDescending(h1, B_, ipiv_, n, k_ + 1)

\* dgetrs, "Apply row interchanges to B": steps k..n-1
RECURSIVE Interchange(_, _, _, _, _)
Interchange(h, B_, ipiv_, n, k_) ==
    IF k_ >= n THEN h
    ELSE LET pivotRow == ipiv_[k_ + 1] - 1
         IN  Interchange(IF pivotRow # k_
                         THEN SwapRows(h, B_, k_, pivotRow, 0, B_.cols)
                         ELSE h,
                         B_, ipiv_, n, k_ + 1)

\* B[i, j..nrhs-1] -= factor * B[k, j..nrhs-1]
RECURSIVE AxpyRow(_, _, _, _, _, _)
AxpyRow(h, B_, i, k_, factor, j) ==
    IF j >= B_.cols THEN h
    ELSE LET newVal == FSub(getElement(h, B_, i, j),
                            FMul(factor, getElement(h, B_, k_, j)))
         IN  AxpyRow(setElement(h, B_, i, j, newVal), B_, i, k_, factor, j + 1)

\* dgetrs, "Forward substitution": from (k, i) on
RECURSIVE Forward(_, _, _, _, _)
Forward(h, A_, B_, k_, i) ==
    IF k_ >= A_.rows - 1 THEN h
    ELSE IF i >= A_.rows THEN Forward(h, A_, B_, k_ + 1, k_ + 2)
    ELSE Forward(AxpyRow(h, B_, i, k_, getElement(h, A_, i, k_), 0), A_, B_, k_, i + 1)

\* B[k, j..nrhs-1] /= pivot
RECURSIVE ScaleRow(_, _, _, _, _)
ScaleRow(h, B_, k_, pivot, j) ==
    IF j >= B_.cols THEN h
    ELSE ScaleRow(setElement(h, B_, k_, j, FDiv(getElement(h, B_, k_, j), pivot)),
                  B_, k_, pivot, j + 1)

\* rows i..k-1 of the back substitution of step k
RECURSIVE BackRows(_, _, _, _, _)
BackRows(h, A_, B_, k_, i) ==
    IF i >= k_ THEN h
    ELSE BackRows(AxpyRow(h, B_, i, k_, getElement(h, A_, i, k_), 0), A_, B_, k_, i + 1)

\* dgetrs, "Back substitution": steps k, k-1, .., 0
RECURSIVE Backward(_, _, _, _)
Backward(h, A_, B_, k_) ==
    IF k_ < 0 THEN h
    ELSE LET h1 == ScaleRow(h, B_, k_, getElement(h, A_, k_, k_), 0)
         IN  Backward(BackRows(h1, A_, B_, k_, 0), A_, B_, k_ - 1)

(***************************************************************************)
(* The state.  One call of dgesv (Spec), of copyMatrix (SpecCopy), or a    *)
(* short sequence of calls of the matrix utilities (SpecMatrix).           *)
(***************************************************************************)
VARIABLES
    pc,              \* where the call stands; "done" once it has returned or thrown
    heap,            \* the typed arrays
    heap0,           \* the typed arrays when the call was made
    thrown,          \* "none", or the error the call raised to its caller
    A, B,            \* dgesv: input.A and input.B
    overwriteInput,  \* dgesv: input.overwriteInput (FALSE when omitted)
    workA, workB,    \* dgesv: the working views
    ipiv,            \* dgesv: pivots
    k,               \* dgetrf: the loop variable
    info,            \* dgesv: the info returned (0 until then)
    result,          \* dgesv: the result returned
    source, target,  \* copyMatrix: its arguments
    matrix,          \* the matrix utilities: the matrix created
    call,            \* the matrix utilities: the last call, [op, i, j, value]
    ret,             \* the matrix utilities: what the last getElement returned
    calls            \* the matrix utilities: calls made so far

vars == <<pc, heap, heap0, thrown, A, B, overwriteInput, workA, workB, ipiv, k,
          info, result, source, target, matrix, call, ret, calls>>

dgesvVars == <<A, B, overwriteInput, workA, workB, ipiv, k, info, result>>

copyVars == <<source, target>>

matrixVars == <<matrix, call, ret, calls>>

\* `{} as DgesvOutput`: no field is populated
EmptyResult == [populated |-> FALSE, solution |-> NoView, LU |-> NoView, pivots |-> <<>>]

NoCall == [op |-> "none", i |-> 0, j |-> 0, value |-> FZero, layout |-> "none"]

(***************************************************************************)
(* Inputs.  A caller's matrix is a view over its own buffer: rows, cols    *)
(* and layout, a leadingDimension of the canonical one plus pad, and the   *)
(* logical contents c[i][j] (integers here), every other cell of the       *)
(* buffer holding PadValue.                                                *)
(***************************************************************************)
MaxDim == 2

MaxPad == 1

MaxVal == 2

PadValue == FromInt(-77)

InputView(data, rows, cols, layout, pad) ==
    [createMatrix(data, rows, cols, layout) EXCEPT !.leadingDimension = @ + pad]

CellCount(view) ==
    IF view.rows <= 0 \/ view.cols <= 0 THEN 0
    ELSE view.leadingDimension * (IF view.layout = "column-major" THEN view.cols ELSE view.rows)

Positions(view) == (0..(view.rows - 1)) \X (0..(view.cols - 1))

\* the typed array under view whose logical cell (i, j) holds the number c[i][j]
ArrayOf(type, view, c) ==
    [type |-> type,
     cells |-> [p \in 1..CellCount(view) |->
        IF \E ij \in Positions(view) : Offset(view, ij[1], ij[2]) = p - 1
        THEN LET ij == CHOOSE x \in Positions(view) : Offset(view, x[1], x[2]) = p - 1
             IN  StoreConv(type, c[ij[1]][ij[2]])
        ELSE PadValue]]

\* the numbers of the contents c: the integer c[i][j], or at the positions of
\* recip the double 1 / c[i][j]
Numbers(c, recip) ==
    [i \in DOMAIN c |-> [j \in DOMAIN c[i] |->
        IF <<i, j>> \in recip THEN FDiv(FromInt(1), FromInt(c[i][j])) ELSE FromInt(c[i][j])]]

InputArray(type, view, c) == ArrayOf(type, view, Numbers(c, {}))

\* the contents given row by row, as a function of 0-based (i, j)
Rows(mat) == [i \in 0..(Len(mat) - 1) |-> [j \in 0..(Len(mat[1]) - 1) |-> mat[i + 1][j + 1]]]

Contents(rows, cols, vals) == [0..(rows - 1) -> [0..(cols - 1) -> vals]]

\* the systems of the test suite, and singular and ill-scaled ones beside them
Catalogue ==
    { <<Rows(<< <<2, 1>>, <<1, 3>> >>), Rows(<< <<3>>, <<4>> >>)>>,
      <<Rows(<< <<1, 2, 3>>, <<4, 5, 6>>, <<7, 8, 10>> >>),
        Rows(<< <<14, 20>>, <<32, 47>>, <<53, 74>> >>)>>,
      <<Rows(<< <<1, 0, 0>>, <<0, 1, 0>>, <<0, 0, 1>> >>), Rows(<< <<5>>, <<7>>, <<9>> >>)>>,
      <<Rows(<< <<1, 2>>, <<2, 4>> >>), Rows(<< <<1>>, <<2>> >>)>>,
      <<Rows(<< <<1, 1>>, <<49, 49>> >>), Rows(<< <<1>>, <<2>> >>)>>,
      <<Rows(<< <<1, 2, 3>>, <<4, 5, 6>>, <<7, 8, 9>> >>), Rows(<< <<1>>, <<2>>, <<3>> >>)>>,
      <<Rows(<< <<1, 2, 3>>, <<2, 4, 6>>, <<7, 8, 10>> >>), Rows(<< <<1>>, <<2>>, <<3>> >>)>>,
      <<Rows(<< <<3>> >>), Rows(<< <<1>> >>)>> }

Dim(c) == Cardinality(DOMAIN c)

Width(c) == IF DOMAIN c = {} THEN 0 ELSE Cardinality(DOMAIN c[0])

PatternA(rows, cols) == [i \in 0..(rows - 1) |-> [j \in 0..(cols - 1) |->
                            IF i = j THEN i + 2 ELSE 1]]

PatternB(rows, cols) == [i \in 0..(rows - 1) |-> [j \in 0..(cols - 1) |-> 3 + i + 2 * j]]

Input(a, ar, ac, al, ap, b, br, bc, bl, bp, ow) ==
    [a |-> a, ar |-> ar, ac |-> ac, al |-> al, ap |-> ap,
     b |-> b, br |-> br, bc |-> bc, bl |-> bl, bp |-> bp, ow |-> ow, recip |-> {}]

\* every 2 x 2 system with small entries, as createFloat64Matrix and setElement build it
SmallSystems ==
    { Input(a, 2, 2, "column-major", 0, b, 2, 1, "column-major", 0, FALSE) :
        a \in Contents(2, 2, (-1)..MaxVal), b \in Contents(2, 1, 0..MaxVal) }

\* the catalogue in every layout, with and without overwriteInput
CatalogueSystems ==
    { Input(ab[1], Dim(ab[1]), Dim(ab[1]), al, 0, ab[2], Dim(ab[2]), Width(ab[2]), bl, 0, ow) :
        ab \in Catalogue, al \in Layouts, bl \in Layouts, ow \in BOOLEAN }

\* views of every shape, layout and leading dimension
ShapedSystems ==
    { Input(PatternA(ar, ac), ar, ac, al, ap, PatternB(br, bc), br, bc, bl, bp, ow) :
        ar \in (-1)..MaxDim, ac \in (-1)..MaxDim, al \in Layouts, ap \in 0..MaxPad,
        br \in (-1)..MaxDim, bc \in (-1)..MaxDim, bl \in Layouts, bp \in 0..MaxPad,
        ow \in BOOLEAN }

\* every 3 x 3 matrix of zeros and ones, with one right-hand side
BinarySystems ==
    { Input(a, 3, 3, "column-major", 0, PatternB(3, 1), 3, 1, "column-major", 0, FALSE) :
        a \in Contents(3, 3, {0, 1}) }

\* the invertible but nearly singular A = [[3, 1], [1, 1/3]], 1/3 being the double
NearlySingularSystems ==
    { [Input(Rows(<< <<3, 1>>, <<1, 3>> >>), 2, 2, al, 0,
             Rows(<< <<1>>, <<1>> >>), 2, 1, "column-major", 0, ow)
         EXCEPT !.recip = {<<1, 1>>}] : al \in Layouts, ow \in BOOLEAN }

Inputs ==
    SmallSystems \cup BinarySystems \cup CatalogueSystems \cup ShapedSystems
        \cup NearlySingularSystems

NoDgesv ==
    /\ A = NoView /\ B = NoView /\ overwriteInput = FALSE
    /\ workA = NoView /\ workB = NoView /\ ipiv = <<>> /\ k = 0
    /\ info = 0 /\ result = EmptyResult

NoCopy == source = NoView /\ target = NoView

NoMatrix == matrix = NoView /\ call = NoCall /\ ret = FZero /\ calls = 0

Init ==
    \E in \in Inputs :
        LET va == InputView("A", in.ar, in.ac, in.al, in.ap)
            vb == InputView("B", in.br, in.bc, in.bl, in.bp)
            h  == [id \in {"A", "B"} |->
                     IF id = "A" THEN ArrayOf("Float64Array", va, Numbers(in.a, in.recip))
                     ELSE InputArray("Float64Array", vb, in.b)]
        IN  /\ A = va
            /\ B = vb
            /\ overwriteInput = in.ow
            /\ heap = h
            /\ heap0 = h
            /\ pc = "dgesv"
            /\ thrown = "none"
            /\ workA = NoView
            /\ workB = NoView
            /\ ipiv = <<>>
            /\ k = 0
            /\ info = 0
            /\ result = EmptyResult
            /\ NoCopy
            /\ NoMatrix

(***************************************************************************)
(* dgesv                                                                   *)
(***************************************************************************)

\* createFloat64Matrix(rows, cols, {layout, initialValue}) into buffer data:
\* the error thrown ("none" when it returns), the heap and the view
createFloat64Matrix(h, data, rows, cols, layout, initialValue) ==
    IF rows * cols < 0
    THEN [thrown |-> "RangeError", heap |-> h, view |-> NoView]
    ELSE LET arr == NewArray("Float64Array", rows * cols, initialValue)
         IN  IF Len(arr.cells) < rows * cols
             THEN [thrown |-> "LapackError", heap |-> h, view |-> NoView]
             ELSE [thrown |-> "none", heap |-> (data :> arr) @@ h,
                   view |-> createMatrix(data, rows, cols, layout)]

\* createFloat32Matrix, likewise
createFloat32Matrix(h, data, rows, cols, layout, initialValue) ==
    IF rows * cols < 0
    THEN [thrown |-> "RangeError", heap |-> h, view |-> NoView]
    ELSE LET arr == NewArray("Float32Array", rows * cols, initialValue)
         IN  IF Len(arr.cells) < rows * cols
             THEN [thrown |-> "LapackError", heap |-> h, view |-> NoView]
             ELSE [thrown |-> "none", heap |-> (data :> arr) @@ h,
                   view |-> createMatrix(data, rows, cols, layout)]

\* a dgesv that does not compare A.rows with B.rows
DgesvChecksNoRowCheck(A_, B_) ==
    IF A_.rows # A_.cols THEN -1
    ELSE validateParameters(A_.rows, B_.cols, A_.leadingDimension, B_.leadingDimension)

\* "Validate dimensions" and "Validate parameters": the info dgesv returns at
\* once, 0 when it goes on
DgesvChecks(A_, B_) ==
    IF A_.rows # A_.cols THEN -1
    ELSE IF A_.rows # B_.rows THEN -1
    ELSE validateParameters(A_.rows, B_.cols, A_.leadingDimension, B_.leadingDimension)

\* a dgesv that always works in place
AlwaysOnCallerViews(ow) == TRUE

\* a dgesv that always copies
NeverOnCallerViews(ow) == FALSE

\* `overwriteInput ? A : createFloat64Matrix(..)`: work on the caller's views
OnCallerViews(ow) == ow

\* "Create working copies if not overwriting input"
WorkingCopies(h, A_, B_, ow) ==
    IF OnCallerViews(ow)
    THEN [thrown |-> "none", heap |-> h, workA |-> A_, workB |-> B_]
    ELSE LET ca == createFloat64Matrix(h, "workA", A_.rows, A_.rows, A_.layout, FZero)
             cb == createFloat64Matrix(ca.heap, "workB", A_.rows, B_.cols, B_.layout, FZero)
             pa == copyMatrix(cb.heap, A_, ca.view)
             pb == copyMatrix(pa.heap, B_, cb.view)
         IN  IF ca.thrown # "none"
             THEN [thrown |-> ca.thrown, heap |-> h, workA |-> NoView, workB |-> NoView]
             ELSE IF cb.thrown # "none"
             THEN [thrown |-> cb.thrown, heap |-> ca.heap, workA |-> ca.view, workB |-> NoView]
             ELSE IF pa.thrown # "none"
             THEN [thrown |-> pa.thrown, heap |-> cb.heap, workA |-> ca.view, workB |-> cb.view]
             ELSE [thrown |-> pb.thrown, heap |-> pb.heap, workA |-> ca.view, workB |-> cb.view]

\* a dgesv that asks dgetrs for the transposed solve
SolveTransposed == "T"

\* the mode dgesv hands to dgetrs
SolveTrans == "N"

\* dgetrs throws unless this holds
TransSupported(trans) == trans = "N"

Return(code, res) ==
    /\ pc' = "done"
    /\ info' = code
    /\ result' = res

Throw(error) ==
    /\ pc' = "done"
    /\ thrown' = error

DgesvValidate ==
    /\ pc = "dgesv"
    /\ LET code == DgesvChecks(A, B)
       IN  IF code # 0
           THEN Return(code, EmptyResult)
           ELSE pc' = "copies" /\ UNCHANGED <<info, result>>
    /\ UNCHANGED <<heap, heap0, thrown, A, B, overwriteInput, workA, workB, ipiv, k>>
    /\ UNCHANGED <<copyVars, matrixVars>>

DgesvWorkingCopies ==
    /\ pc = "copies"
    /\ LET w == WorkingCopies(heap, A, B, overwriteInput)
           n == A.rows
       IN  /\ heap' = w.heap
           /\ workA' = w.workA
           /\ workB' = w.workB
           /\ IF w.thrown # "none"
              THEN Throw(w.thrown) /\ UNCHANGED ipiv
              ELSE /\ ipiv' = [x \in 1..n |-> 0]
                   /\ pc' = IF 0 < n THEN "dgetrf" ELSE "dgetrs"
                   /\ UNCHANGED thrown
    /\ UNCHANGED <<heap0, A, B, overwriteInput, k, info, result>>
    /\ UNCHANGED <<copyVars, matrixVars>>

\* one iteration of dgetrf's loop; a zero pivot ends dgetrf and dgesv
DgetrfStep ==
    /\ pc = "dgetrf"
    /\ LET r == DgetrfBody(heap, workA, ipiv, k)
       IN  /\ heap' = r.heap
           /\ ipiv' = r.ipiv
           /\ IF r.info # 0
              THEN Return(r.info, EmptyResult) /\ UNCHANGED k
              ELSE /\ k' = k + 1
                   /\ pc' = IF k + 1 < workA.rows THEN "dgetrf" ELSE "dgetrs"
                   /\ UNCHANGED <<info, result>>
    /\ UNCHANGED <<heap0, thrown, A, B, overwriteInput, workA, workB>>
    /\ UNCHANGED <<copyVars, matrixVars>>

DgetrsInterchange ==
    /\ pc = "dgetrs"
    /\ IF ~TransSupported(SolveTrans)
       THEN Throw("LapackError") /\ UNCHANGED heap
       ELSE /\ heap' = Interchange(heap, workB, ipiv, workA.rows, 0)
            /\ pc' = "forward"
            /\ UNCHANGED thrown
    /\ UNCHANGED <<heap0, A, B, overwriteInput, workA, workB, ipiv, k, info, result>>
    /\ UNCHANGED <<copyVars, matrixVars>>

DgetrsForward ==
    /\ pc = "forward"
    /\ heap' = Forward(heap, workA, workB, 0, 1)
    /\ pc' = "backward"
    /\ UNCHANGED <<heap0, thrown, A, B, overwriteInput, workA, workB, ipiv, k, info, result>>
    /\ UNCHANGED <<copyVars, matrixVars>>

\* the last loop of dgetrs, its return of info 0, and dgesv's return
DgetrsBackward ==
    /\ pc = "backward"
    /\ heap' = Backward(heap, workA, workB, workA.rows - 1)
    /\ Return(0, [populated |-> TRUE, solution |-> workB, LU |-> workA, pivots |-> ipiv])
    /\ UNCHANGED <<heap0, thrown, A, B, overwriteInput, workA, workB, ipiv, k>>
    /\ UNCHANGED <<copyVars, matrixVars>>

Next ==
    \/ DgesvValidate
    \/ DgesvWorkingCopies
    \/ DgetrfStep
    \/ DgetrsInterchange
    \/ DgetrsForward
    \/ DgetrsBackward

Spec == Init /\ [][Next]_vars

(***************************************************************************)
(* The same call as one function of its input: what dgesv returns, the     *)
(* error it throws and the heap it leaves.  The actions above are its      *)
(* steps.                                                                  *)
(***************************************************************************)
RECURSIVE dgetrf(_, _, _, _)
dgetrf(h, A_, ipiv_, k_) ==
    IF k_ >= A_.rows THEN [heap |-> h, ipiv |-> ipiv_, info |-> 0]
    ELSE LET r == DgetrfBody(h, A_, ipiv_, k_)
         IN  IF r.info # 0 THEN r ELSE dgetrf(r.heap, A_, r.ipiv, k_ + 1)

dgetrs(h, trans, A_, ipiv_, B_) ==
    IF ~TransSupported(trans) THEN [thrown |-> "LapackError", heap |-> h, info |-> 0]
    ELSE [thrown |-> "none", info |-> 0,
          heap |-> Backward(Forward(Interchange(h, B_, ipiv_, A_.rows, 0), A_, B_, 0, 1),
                            A_, B_, A_.rows - 1)]

dgesv(h, A_, B_, ow) ==
    LET code == DgesvChecks(A_, B_)
        w    == WorkingCopies(h, A_, B_, ow)
        lu   == dgetrf(w.heap, w.workA, [x \in 1..A_.rows |-> 0], 0)
        sol  == dgetrs(lu.heap, SolveTrans, w.workA, lu.ipiv, w.workB)
    IN  IF code # 0
        THEN [thrown |-> "none", info |-> code, result |-> EmptyResult, heap |-> h]
        ELSE IF w.thrown # "none"
        THEN [thrown |-> w.thrown, info |-> 0, result |-> EmptyResult, heap |-> w.heap]
        ELSE IF lu.info # 0
        THEN [thrown |-> "none", info |-> lu.info, result |-> EmptyResult, heap |-> lu.heap]
        ELSE IF sol.thrown # "none"
        THEN [thrown |-> sol.thrown, info |-> 0, result |-> EmptyResult, heap |-> sol.heap]
        ELSE [thrown |-> "none", info |-> 0, heap |-> sol.heap,
              result |-> [populated |-> TRUE, solution |-> w.workB, LU |-> w.workA,
                          pivots |-> lu.ipiv]]

\* the rows x cols values a view shows, row by row
Shown(h, view) ==
    [i \in 0..(view.rows - 1) |-> [j \in 0..(view.cols - 1) |-> getElement(h, view, i, j)]]

(***************************************************************************)
(* Exact arithmetic on the values of a matrix, for stating the claims.     *)
(***************************************************************************)
One == FromInt(1)

RECURSIVE DotExact(_, _, _, _, _)
DotExact(a, x, i, j, c) ==
    IF c < 0 THEN FZero
    ELSE FAddExact(FMulExact(a[i][c], x[c][j]), DotExact(a, x, i, j, c - 1))

Without(cols, p) == [q \in 1..(Len(cols) - 1) |-> IF q < p THEN cols[q] ELSE cols[q + 1]]

\* the determinant of the rows i.. and columns cols of mat, along row i
RECURSIVE DetExact(_, _, _)
RECURSIVE DetSum(_, _, _, _)
DetSum(mat, i, cols, p) ==
    IF p > Len(cols) THEN FZero
    ELSE LET term == FMulExact(mat[i][cols[p]], DetExact(mat, i + 1, Without(cols, p)))
         IN  FAddExact(IF p % 2 = 1 THEN term ELSE FNeg(term), DetSum(mat, i, cols, p + 1))

DetExact(mat, i, cols) == IF cols = <<>> THEN One ELSE DetSum(mat, i, cols, 1)

Det(mat) == DetExact(mat, 0, [q \in 1..Dim(mat) |-> q - 1])

\* |x| <= |y|
AbsLeq(x, y) == FCmp(FAbs(x), FAbs(y)) <= 0

\* the contents of the caller's matrices when dgesv was called
A0 == Shown(heap0, A)

B0 == Shown(heap0, B)

\* the values of result.solution
X == Shown(heap, result.solution)

\* a view as createFloat64Matrix builds it by default
AsCreated(view) == view.layout = "column-major" /\ view.leadingDimension = view.rows

\* A (n x n) and B (n x nrhs) as createFloat64Matrix builds them by default
CreatedSystem ==
    /\ AsCreated(A) /\ AsCreated(B)
    /\ A.rows >= 0 /\ A.cols = A.rows /\ B.rows = A.rows /\ B.cols >= 0

\* a created system of order n >= 1
DefaultSystem == CreatedSystem /\ A.rows >= 1

\* every entry of mat is at most bound in magnitude
EntriesWithin(mat, bound) ==
    \A i \in DOMAIN mat : \A j \in DOMAIN mat[i] : AbsLeq(mat[i][j], FromInt(bound))

\* A of order 1..3 with |det A| >= 1 and entries of magnitude at most 10 (so
\* every invertible matrix of integers of that size), B with entries at most 100
WellConditioned ==
    /\ DefaultSystem /\ A.rows <= 3
    /\ AbsLeq(FromInt(1), Det(A0))
    /\ EntriesWithin(A0, 10)
    /\ EntriesWithin(B0, 100)

Identity(mat) == \A i \in DOMAIN mat : \A j \in DOMAIN mat[i] :
                    mat[i][j] = IF i = j THEN One ELSE FZero

\* 1 / (the relative residual the solution is held to)
InverseTolerance == 10^8

\* |(A0 * X - B0)[i][j]| <= max(|B0[i][j]|, 1) / InverseTolerance
ResidualWithin(i, j) ==
    LET r == FAddExact(DotExact(A0, X, i, j, A.rows - 1), FNeg(B0[i][j]))
        b == IF AbsLeq(B0[i][j], One) THEN One ELSE B0[i][j]
    IN  AbsLeq(FMulExact(r, FromInt(InverseTolerance)), b)

\* dgesv returned 0 with a solution whose residual A * X - B, computed exactly, is
\* within 1e-8 of every entry of B relative to it, and X = B when A is the identity
Solved ==
    /\ info = 0
    /\ thrown = "none"
    /\ result.populated
    /\ \A i \in 0..(B.rows - 1) : \A j \in 0..(B.cols - 1) : ResidualWithin(i, j)
    /\ Identity(A0) => X = B0

(***************************************************************************)
(* C1, as claimed: for every invertible n x n matrix A and every n x nrhs  *)
(* matrix B built with createFloat64Matrix in the default layout, dgesv    *)
(* returns info = 0 and a solution X with A * X = B in every column.       *)
(***************************************************************************)
C1_EveryInvertibleSolved ==
    (pc = "done" /\ CreatedSystem /\ ~FIsZero(Det(A0))) => Solved

(***************************************************************************)
(* C1, amended: for an n x n matrix A with 1 <= n <= 3, |det A| >= 1 and   *)
(* entries of magnitude at most 10, and an n x nrhs matrix B with entries  *)
(* of magnitude at most 100, both built with createFloat64Matrix in the    *)
(* default layout, dgesv returns info = 0 and a solution X with A * X = B  *)
(* in every column: every entry of A * X - B, computed exactly, is within  *)
(* 1e-8 of B's entry relative to it; and when A is the identity X is B     *)
(* itself.                                                                 *)
(***************************************************************************)
C1_SolvesSystem ==
    (pc = "done" /\ WellConditioned) => Solved

\* A = [[2,1],[1,3]], B = [[3],[4]] has been solved, and X = [[1],[1]] exactly
C1_Witness ==
    /\ pc = "done" /\ WellConditioned /\ info = 0
    /\ A0 = [i \in 0..1 |-> [j \in 0..1 |-> FromInt(Rows(<< <<2, 1>>, <<1, 3>> >>)[i][j])]]
    /\ B0 = [i \in 0..1 |-> [j \in 0..0 |-> FromInt(3 + i)]]
    /\ X = [i \in 0..1 |-> [j \in 0..0 |-> One]]

(***************************************************************************)
(* C2: with overwriteInput false (or omitted) every element of the         *)
(* caller's A buffer and B buffer is, at every point of the call and       *)
(* whatever it returns, what it was when dgesv was called.                 *)
(***************************************************************************)
C2_InputsPreserved ==
    ~overwriteInput => heap["A"] = heap0["A"] /\ heap["B"] = heap0["B"]

\* a call without overwriteInput has factored and solved, in buffers of its own
C2_Witness ==
    /\ pc = "done" /\ ~overwriteInput /\ info = 0 /\ A.rows = 2
    /\ heap[workA.data].cells # heap0["A"].cells
    /\ heap[workB.data].cells # heap0["B"].cells

(***************************************************************************)
(* C3: with overwriteInput true and info = 0 no private copy is made:      *)
(* result.solution is the caller's B view and result.LU the caller's A     *)
(* view, and the caller's buffers hold the solution and the L/U factors    *)
(* (the values dgesv computes for the same input without overwriteInput).  *)
(***************************************************************************)
C3_OverwritesInputs ==
    (pc = "done" /\ overwriteInput /\ info = 0) =>
        /\ result.populated
        /\ result.solution = B
        /\ result.LU = A
        /\ DOMAIN heap = {"A", "B"}
        /\ LET ref == dgesv(heap0, A, B, FALSE)
           IN  /\ ref.info = 0
               /\ Shown(heap, B) = Shown(ref.heap, ref.result.solution)
               /\ Shown(heap, A) = Shown(ref.heap, ref.result.LU)
               /\ result.pivots = ref.result.pivots

\* an overwriting call has returned 0 and both buffers have changed
C3_Witness ==
    /\ pc = "done" /\ overwriteInput /\ info = 0 /\ A.rows >= 2
    /\ heap["A"] # heap0["A"]
    /\ heap["B"] # heap0["B"]

\* the input in another layout: the same logical contents, built by createFloat64Matrix
Relaid(view, layout) == createMatrix(view.data, view.rows, view.cols, layout)

RelaidHeap(al, bl) ==
    [id \in {"A", "B"} |->
        IF id = "A" THEN ArrayOf("Float64Array", Relaid(A, al), A0)
        ELSE ArrayOf("Float64Array", Relaid(B, bl), B0)]

BothCreated ==
    /\ A.rows >= 1 /\ A.cols >= 1 /\ B.rows >= 1 /\ B.cols >= 1
    /\ A = Relaid(A, A.layout) /\ B = Relaid(B, B.layout)

(***************************************************************************)
(* C4: two inputs with the same logical contents built in different        *)
(* layouts give the same info and, position by position, the same          *)
(* solution.                                                               *)
(***************************************************************************)
C4_LayoutIndependent ==
    (pc = "done" /\ BothCreated) =>
        \A al \in Layouts : \A bl \in Layouts :
            LET other == dgesv(RelaidHeap(al, bl), Relaid(A, al), Relaid(B, bl), overwriteInput)
            IN  /\ other.info = info
                /\ info = 0 => Shown(other.heap, other.result.solution) = X

\* a square matrix with one row a linear combination of the others
Singular(mat) == FIsZero(Det(mat))

\* row r of mat is exactly 2 times another row
TwiceAnotherRow(mat) ==
    \E r \in DOMAIN mat : \E q \in DOMAIN mat \ {r} :
        \A j \in DOMAIN mat[r] : mat[r][j] = FMulExact(FromInt(2), mat[q][j])

(***************************************************************************)
(* C5, as claimed: for every square matrix A with a linearly dependent     *)
(* row, and B with as many rows, dgesv returns info > 0.                   *)
(***************************************************************************)
C5_DependentRowDetected ==
    (pc = "done" /\ DefaultSystem /\ Singular(A0)) => info > 0

(***************************************************************************)
(* C5, amended: for every square matrix A in which one row is exactly 2    *)
(* times another row, and B with as many rows, a dgesv call whose          *)
(* arguments pass validation returns info > 0.                             *)
(***************************************************************************)
C5_TwiceARowDetected ==
    (pc = "done" /\ DgesvChecks(A, B) = 0 /\ TwiceAnotherRow(A0)) => info > 0

\* a 3 x 3 matrix whose second row is twice its first was found singular at the last column
C5_Witness ==
    /\ pc = "done" /\ DgesvChecks(A, B) = 0 /\ TwiceAnotherRow(A0)
    /\ A.rows = 3 /\ info = 3 /\ ~FIsZero(A0[0][0])

ShapeMismatch == A.rows # A.cols \/ A.rows # B.rows

(***************************************************************************)
(* C6: when A is not square, or is square with A.rows # B.rows, dgesv      *)
(* returns info = -1 with nothing populated, before any copy or            *)
(* factorization: no buffer is allocated and neither A's nor B's buffer is *)
(* modified, with overwriteInput true as well.                             *)
(***************************************************************************)
C6_ShapeMismatchRejected ==
    (pc = "done" /\ ShapeMismatch) =>
        /\ info = -1
        /\ thrown = "none"
        /\ result = EmptyResult
        /\ heap = heap0
        /\ workA = NoView /\ workB = NoView /\ ipiv = <<>>

\* an overwriting call with a 2 x 2 A and a B of one row has returned
C6_Witness ==
    /\ pc = "done" /\ overwriteInput
    /\ A.rows = 2 /\ A.cols = 2 /\ B.rows = 1 /\ B.cols = 1
    /\ info = -1

(***************************************************************************)
(* C7: once the shapes agree, dgesv validates n = A.rows, nrhs = B.cols,   *)
(* lda and ldb in that order and returns the code of the first one         *)
(* violated, with nothing populated: -1 for n < 0, -2 for nrhs < 0, -4 for *)
(* lda < max(1,n), -7 for ldb < max(1,n); when none is violated info is    *)
(* not negative.                                                           *)
(***************************************************************************)
C7_FirstInvalidParameter ==
    (pc = "done" /\ ~ShapeMismatch) =>
        LET n    == A.rows
            nrhs == B.cols
            lda  == A.leadingDimension
            ldb  == B.leadingDimension
            bad  == n < 0 \/ nrhs < 0 \/ lda < MaxOf(1, n) \/ ldb < MaxOf(1, n)
        IN  /\ n < 0 => info = -1
            /\ (n >= 0 /\ nrhs < 0) => info = -2
            /\ (n >= 0 /\ nrhs >= 0 /\ lda < MaxOf(1, n)) => info = -4
            /\ (n >= 0 /\ nrhs >= 0 /\ lda >= MaxOf(1, n) /\ ldb < MaxOf(1, n)) => info = -7
            /\ bad => result = EmptyResult /\ heap = heap0
            /\ ~bad => info >= 0

\* lda and ldb are both too small, and the call has returned lda's code
C7_Witness ==
    /\ pc = "done" /\ ~ShapeMismatch
    /\ A.rows = 0 /\ B.cols >= 0
    /\ A.leadingDimension < 1 /\ B.leadingDimension < 1
    /\ info = -4

(***************************************************************************)
(* C8: for every pair of views and either value of overwriteInput, dgesv   *)
(* raises no error to its caller at any step, its loop over the columns    *)
(* stays within the matrix, and what it returns is one info code: 0 with a *)
(* populated result, or a code of validation or of the singular column     *)
(* with nothing populated.                                                 *)
(***************************************************************************)
C8_ReturnsNeverThrows ==
    /\ thrown = "none"
    /\ pc \in {"dgesv", "copies", "dgetrf", "dgetrs", "forward", "backward", "done"}
    /\ pc = "dgetrf" => k < workA.rows
    /\ pc = "done" => info \in {-7, -4, -2, -1} \cup 0..A.rows
    /\ pc = "done" => (info = 0 <=> result.populated)

\* a copying call on a strided A and a row-major B went through the copy and dgetrs
C8_Witness ==
    /\ pc = "done" /\ thrown = "none" /\ info = 0 /\ ~overwriteInput
    /\ A.rows = 2 /\ A.leadingDimension > A.rows
    /\ B.layout = "row-major" /\ B.cols = 1
    /\ result.populated

(***************************************************************************)
(* copyMatrix: one call on a source and a target view of any shape,        *)
(* layout and leading dimension, over typed arrays of one element type.    *)
(***************************************************************************)
CopyViews(data) ==
    { InputView(data, rows, cols, layout, pad) :
        rows \in 0..MaxDim, cols \in 0..MaxDim, layout \in Layouts, pad \in 0..MaxPad }

\* the source holds 1, 2, 3, .. and the target 51, 52, 53, .., row by row
Counting(view, from) ==
    [i \in 0..(view.rows - 1) |-> [j \in 0..(view.cols - 1) |-> from + i * view.cols + j]]

InitCopy ==
    /\ \E vs \in CopyViews("S") : \E vt \in CopyViews("T") :
       \E type \in {"Float64Array", "Float32Array"} :
          LET h == [id \in {"S", "T"} |->
                      IF id = "S" THEN InputArray(type, vs, Counting(vs, 1))
                      ELSE InputArray(type, vt, Counting(vt, 51))]
          IN  /\ source = vs
              /\ target = vt
              /\ heap = h
              /\ heap0 = h
    /\ pc = "copyMatrix"
    /\ thrown = "none"
    /\ NoDgesv
    /\ NoMatrix

CopyMatrix ==
    /\ pc = "copyMatrix"
    /\ LET r == copyMatrix(heap, source, target)
       IN  heap' = r.heap /\ thrown' = r.thrown
    /\ pc' = "done"
    /\ UNCHANGED <<heap0, copyVars, dgesvVars, matrixVars>>

NextCopy == CopyMatrix

SpecCopy == InitCopy /\ [][NextCopy]_vars

SameShape == source.rows = target.rows /\ source.cols = target.cols

(***************************************************************************)
(* C9: for a source and a target of equal rows and cols, whatever their    *)
(* layouts and leading dimensions, after copyMatrix every logical element  *)
(* of target equals that of source and source is unchanged; when rows or   *)
(* cols differ copyMatrix fails with an error and target is unchanged.     *)
(***************************************************************************)
C9_CopyIsFaithful ==
    pc = "done" =>
        IF SameShape
        THEN /\ thrown = "none"
             /\ Shown(heap, target) = Shown(heap0, source)
             /\ heap["S"] = heap0["S"]
        ELSE /\ thrown = "LapackError"
             /\ heap = heap0

(***************************************************************************)
(* The matrix utilities: a matrix is created by one of the create helpers  *)
(* and then read and written through the bounds-checked accessors.         *)
(***************************************************************************)
MaxCalls == 1

\* utils/matrix getElement: validateIndices, then the read
checkedGetElement(h, m, i, j) ==
    IF IndicesValid(m, i, j)
    THEN [thrown |-> "none", value |-> getElement(h, m, i, j)]
    ELSE [thrown |-> "LapackError", value |-> FNonFinite]

\* utils/matrix setElement: validateIndices, then the write
checkedSetElement(h, m, i, j, value) ==
    IF IndicesValid(m, i, j)
    THEN [thrown |-> "none", heap |-> setElement(h, m, i, j, value)]
    ELSE [thrown |-> "LapackError", heap |-> h]

EmptyHeap == [id \in {} |-> NewArray("Float64Array", 0, FZero)]

\* options.layout: omitted, or one of the two layouts
LayoutOptions == {"omitted"} \cup Layouts

\* options.initialValue ?? 0: omitted (0), 5.5 and 0.1
InitialValues == {FZero, FDiv(FromInt(11), FromInt(2)), FDiv(FromInt(1), FromInt(10))}

\* the values written: 42.5 and -17.3
ElementValues == {FDiv(FromInt(85), FromInt(2)), FDiv(FromInt(-173), FromInt(10))}

InitMatrix ==
    /\ pc = "create"
    /\ heap = EmptyHeap
    /\ heap0 = EmptyHeap
    /\ thrown = "none"
    /\ NoDgesv
    /\ NoCopy
    /\ NoMatrix

\* a create helper returned r; call records the helper and its arguments
\* (rows, cols, options.layout, options.initialValue)
Created(r, op, rows, cols, layout, initialValue) ==
    /\ pc = "create"
    /\ heap' = r.heap
    /\ heap0' = r.heap
    /\ matrix' = r.view
    /\ thrown' = r.thrown
    /\ pc' = IF r.thrown = "none" THEN "ready" ELSE "done"
    /\ call' = [op |-> op, i |-> rows, j |-> cols, value |-> initialValue, layout |-> layout]
    /\ UNCHANGED <<ret, calls, dgesvVars, copyVars>>

CreateFloat64Matrix ==
    \E rows \in 0..MaxDim : \E cols \in 0..MaxDim :
    \E layout \in LayoutOptions : \E initialValue \in InitialValues :
        Created(createFloat64Matrix(heap, "M", rows, cols, layout, initialValue),
                "createFloat64Matrix", rows, cols, layout, initialValue)

CreateFloat32Matrix ==
    \E rows \in 0..MaxDim : \E cols \in 0..MaxDim :
    \E layout \in LayoutOptions : \E initialValue \in InitialValues :
        Created(createFloat32Matrix(heap, "M", rows, cols, layout, initialValue),
                "createFloat32Matrix", rows, cols, layout, initialValue)

SetElement ==
    /\ pc = "ready"
    /\ calls < MaxCalls
    /\ \E i \in (-1)..MaxDim : \E j \in (-1)..MaxDim : \E value \in ElementValues :
          LET r == checkedSetElement(heap, matrix, i, j, value)
          IN  /\ heap' = r.heap
              /\ thrown' = r.thrown
              /\ call' = [op |-> "setElement", i |-> i, j |-> j, value |-> value,
                           layout |-> "none"]
    /\ heap0' = heap
    /\ calls' = calls + 1
    /\ UNCHANGED <<pc, matrix, ret, dgesvVars, copyVars>>

GetElement ==
    /\ pc = "ready"
    /\ calls < MaxCalls
    /\ \E i \in (-1)..MaxDim : \E j \in (-1)..MaxDim :
          LET r == checkedGetElement(heap, matrix, i, j)
          IN  /\ ret' = r.value
              /\ thrown' = r.thrown
              /\ call' = [op |-> "getElement", i |-> i, j |-> j, value |-> FZero,
                           layout |-> "none"]
    /\ heap0' = heap
    /\ calls' = calls + 1
    /\ UNCHANGED <<pc, heap, matrix, dgesvVars, copyVars>>

NextMatrix ==
    \/ CreateFloat64Matrix
    \/ CreateFloat32Matrix
    \/ SetElement
    \/ GetElement

SpecMatrix == InitMatrix /\ [][NextMatrix]_vars

\* the valid positions of a view
ValidPositions(m) == (0..(m.rows - 1)) \X (0..(m.cols - 1))

\* the last call was a setElement on a valid position, which returned
SetReturned == call.op = "setElement" /\ thrown = "none"

\* every valid position other than the one written reads as before the call
OthersUnchanged ==
    \A q \in ValidPositions(matrix) :
        q # <<call.i, call.j>> =>
            getElement(heap, matrix, q[1], q[2]) = getElement(heap0, matrix, q[1], q[2])

(***************************************************************************)
(* C10 as claimed: after setElement(m,i,j,v) on a created matrix and a     *)
(* valid (i,j), getElement(m,i,j) returns v for every value v, and every   *)
(* other valid position reads as before.                                   *)
(***************************************************************************)
C10_RoundTripAnyValue ==
    SetReturned =>
        /\ checkedGetElement(heap, matrix, call.i, call.j) =
               [thrown |-> "none", value |-> call.value]
        /\ OthersUnchanged

(***************************************************************************)
(* C10 amended: after setElement(m,i,j,v) on a created matrix and a valid  *)
(* (i,j), getElement(m,i,j) returns v converted to the element type of the *)
(* buffer: v itself in a Float64 matrix and whenever v is a float32 value, *)
(* the float32 nearest to v in a Float32 matrix; every other valid         *)
(* position reads as before, the written cell being the only one that      *)
(* differs in the buffer.                                                  *)
(***************************************************************************)
C10_RoundTripStoredValue ==
    SetReturned =>
        LET got == checkedGetElement(heap, matrix, call.i, call.j)
            type == heap[matrix.data].type
        IN  /\ got.thrown = "none"
            /\ got.value = FToPrecision(call.value, IF type = "Float32Array" THEN Float32Bits ELSE Float64Bits)
            /\ (type = "Float64Array" => got.value = call.value)
            /\ (FToPrecision(call.value, Float32Bits) = call.value => got.value = call.value)
            /\ OthersUnchanged
            /\ \A p \in 1..Len(heap[matrix.data].cells) :
                  p # Offset(matrix, call.i, call.j) + 1 =>
                      heap[matrix.data].cells[p] = heap0[matrix.data].cells[p]
            /\ Len(heap[matrix.data].cells) = Len(heap0[matrix.data].cells)

\* a value that is no float32 was written to a Float32 matrix of more than one element
C10_Witness ==
    /\ SetReturned
    /\ heap[matrix.data].type = "Float32Array"
    /\ FToPrecision(call.value, Float32Bits) # call.value
    /\ matrix.rows > 1 /\ matrix.cols > 1
    /\ matrix.layout = "row-major"
    /\ call.i # call.j

\* the last call was one of the public accessors
AccessorCalled == call.op \in {"getElement", "setElement"}

\* the indices of the last call are out of range
OutOfRange ==
    call.i < 0 \/ call.i >= matrix.rows \/ call.j < 0 \/ call.j >= matrix.cols

(***************************************************************************)
(* C11: the public getElement(m,i,j) and setElement(m,i,j,v) fail with a   *)
(* LapackError whenever i < 0, i >= m.rows, j < 0 or j >= m.cols, leaving  *)
(* the buffer entirely unchanged; for in-range indices they never fail,    *)
(* and getElement changes nothing in either case.                          *)
(***************************************************************************)
C11_OutOfRangeRejected ==
    AccessorCalled =>
        /\ OutOfRange => thrown = "LapackError" /\ heap = heap0
        /\ ~OutOfRange => thrown = "none"
        /\ call.op = "getElement" => heap = heap0
        /\ (call.op = "getElement" /\ ~OutOfRange) =>
               ret = heap0[matrix.data].cells[Offset(matrix, call.i, call.j) + 1]

\* setElement was called with a valid row and the column just past the last one
C11_Witness ==
    /\ call.op = "setElement"
    /\ matrix.rows = 2 /\ matrix.cols = 2
    /\ call.i = 1 /\ call.j = matrix.cols
    /\ thrown = "LapackError"
    /\ heap = heap0

\* a create helper has just returned the view in matrix
JustCreated ==
    /\ call.op \in {"createFloat64Matrix", "createFloat32Matrix"}
    /\ thrown = "none"

\* the view is of the rows and cols asked for, in the layout asked for
\* (column-major by default), over a buffer of exactly rows * cols elements
\* of the helper's element type, with leadingDimension rows or cols
CreatedAsAsked ==
    /\ matrix.rows = call.i /\ matrix.cols = call.j
    /\ matrix.layout = (IF call.layout = "omitted" THEN "column-major" ELSE call.layout)
    /\ heap[matrix.data].type =
           (IF call.op = "createFloat64Matrix" THEN "Float64Array" ELSE "Float32Array")
    /\ Len(heap[matrix.data].cells) = call.i * call.j
    /\ matrix.leadingDimension =
           (IF matrix.layout = "column-major" THEN matrix.rows ELSE matrix.cols)

(***************************************************************************)
(* C12 as claimed: every view returned by the create helpers for rows >= 0 *)
(* and cols >= 0 has a buffer of exactly rows * cols elements all equal to *)
(* initialValue, the requested layout, and a positive leadingDimension     *)
(* equal to rows for column-major and cols for row-major.                  *)
(***************************************************************************)
C12_ViewInvariantAsClaimed ==
    JustCreated =>
        /\ CreatedAsAsked
        /\ \A p \in 1..Len(heap[matrix.data].cells) :
               heap[matrix.data].cells[p] = call.value
        /\ matrix.leadingDimension >= 1

(***************************************************************************)
(* C12 amended: every view returned by the create helpers for rows >= 0    *)
(* and cols >= 0 has a buffer of exactly rows * cols elements all equal to *)
(* initialValue converted to the element type (initialValue itself in a    *)
(* Float64 matrix, the nearest float32 in a Float32 matrix), the requested *)
(* layout, and a leadingDimension equal to rows for column-major and cols  *)
(* for row-major: positive when that dimension is, and 0 when it is 0.     *)
(***************************************************************************)
C12_ViewInvariant ==
    JustCreated =>
        /\ CreatedAsAsked
        /\ \A p \in 1..Len(heap[matrix.data].cells) :
               /\ heap[matrix.data].cells[p] =
                      FToPrecision(call.value,
                                   IF call.op = "createFloat64Matrix"
                                   THEN Float64Bits ELSE Float32Bits)
               /\ call.op = "createFloat64Matrix" => heap[matrix.data].cells[p] = call.value
        /\ matrix.leadingDimension >= 0
        /\ matrix.leadingDimension >= 1 <=>
               (IF matrix.layout = "column-major" THEN call.i ELSE call.j) >= 1
        /\ Len(heap[matrix.data].cells) >= matrix.rows * matrix.cols

\* a row-major 1 x 2 Float32 matrix has been created with initialValue 0.1
C12_Witness ==
    /\ JustCreated
    /\ call.op = "createFloat32Matrix"
    /\ call.layout = "row-major"
    /\ call.i = 1 /\ call.j = 2
    /\ FToPrecision(call.value, Float32Bits) # call.value
    /\ matrix.leadingDimension = 2
    /\ Len(heap[matrix.data].cells) = 2

\* |workA[i, j]| in the current matrix
Magnitude(i, j) == FAbs(getElement(heap, workA, i, j))

\* step k of dgetrf selects the first row of k..n-1 whose magnitude in column k
\* is the largest, and records it, 1-based, in ipiv[k] alone
PivotStep ==
    pc = "dgetrf" =>
        LET n == workA.rows
            r == ipiv'[k + 1] - 1
        IN  /\ r \in k..(n - 1)
            /\ \A i \in k..(n - 1) : FCmp(Magnitude(i, k), Magnitude(r, k)) <= 0
            /\ \A i \in k..(r - 1) : FCmp(Magnitude(i, k), Magnitude(r, k)) < 0
            /\ \A q \in 1..n : q # k + 1 => ipiv'[q] = ipiv[q]

(***************************************************************************)
(* C13: at every elimination step k of dgetrf the selected row is the      *)
(* lowest-index row r of k..n-1 whose |A[r,k]| is maximal over rows k..n-1 *)
(* of the current matrix, and pivots[k] is set to r+1; so after a          *)
(* successful factorization k+1 <= pivots[k] <= n for every k in 0..n-1.   *)
(***************************************************************************)
C13_FirstMaximalPivot ==
    /\ [][PivotStep]_vars
    /\ []((pc = "done" /\ info = 0) =>
            /\ Len(result.pivots) = A.rows
            /\ \A q \in 1..A.rows : q <= result.pivots[q] /\ result.pivots[q] <= A.rows)

\* in a 3 x 3 matrix whose first column is (0, 1, 1) the tie went to row 1
C13_Witness ==
    /\ pc = "done" /\ info = 0 /\ A.rows = 3
    /\ FIsZero(A0[0][0]) /\ A0[1][0] = One /\ A0[2][0] = One
    /\ result.pivots[1] = 2

\* every A[i,k] for i in k..n-1 is 0 in the current matrix
ZeroColumn == \A i \in k..(workA.rows - 1) : FIsZero(getElement(heap, workA, i, k))

\* step k of dgetrf on a zero column ends the call with info = k+1 and touches
\* only ipiv[k]; on any other column the call goes on
ZeroPivotStep ==
    pc = "dgetrf" =>
        IF ZeroColumn
        THEN /\ pc' = "done"
             /\ info' = k + 1
             /\ result' = EmptyResult
             /\ thrown' = "none"
             /\ heap' = heap
             /\ ipiv' = [ipiv EXCEPT ![k + 1] = k + 1]
        ELSE /\ info' = 0
             /\ pc' \in {"dgetrf", "dgetrs"}
             /\ k' = k + 1

(***************************************************************************)
(* C14: if at step k of dgetrf every A[i,k] for i in k..n-1 is 0 in the    *)
(* current matrix, factorization stops at once: dgesv returns info = k+1   *)
(* for the smallest such k with no populated solution, LU or pivots; no    *)
(* row swap or elimination is performed at step k or later, the pivot      *)
(* entries at indices greater than k are left 0, and the working B is      *)
(* never modified on this path.                                            *)
(***************************************************************************)
C14_ZeroPivotStops ==
    /\ [][ZeroPivotStep]_vars
    /\ []((pc = "done" /\ info > 0) =>
            /\ info <= A.rows
            /\ result = EmptyResult
            /\ \A q \in 1..A.rows : q > info => ipiv[q] = 0
            /\ ipiv[info] = info
            /\ \A i \in (info - 1)..(A.rows - 1) :
                   FIsZero(getElement(heap, workA, i, info - 1))
            /\ Shown(heap, workB) = B0)

\* a 3 x 3 matrix went through a swap at step 0 and was found singular at step 1
C14_Witness ==
    /\ pc = "done" /\ info = 2 /\ A.rows = 3
    /\ ipiv = <<2, 2, 0>>
    /\ Shown(heap, workA) # A0
    /\ Shown(heap, workB) = B0

\* dgetrf has returned 0: the working A holds the factors and is no longer written
Factored == pc \in {"dgetrs", "forward", "backward"} \/ (pc = "done" /\ info = 0)

\* the factors read from the working A: L below the diagonal with a unit
\* diagonal, U on and above it
FactorL ==
    [i \in 0..(workA.rows - 1) |-> [j \in 0..(workA.rows - 1) |->
        IF j < i THEN getElement(heap, workA, i, j) ELSE IF j = i THEN One ELSE FZero]]

FactorU ==
    [i \in 0..(workA.rows - 1) |-> [j \in 0..(workA.rows - 1) |->
        IF j >= i THEN getElement(heap, workA, i, j) ELSE FZero]]

\* mat with row k exchanged with row piv[k]-1, for k = from, from+1, .., n-1 in turn
RECURSIVE ApplySwaps(_, _, _)
ApplySwaps(mat, piv, from) ==
    IF from >= Len(piv) THEN mat
    ELSE LET r == piv[from + 1] - 1
         IN  ApplySwaps([mat EXCEPT ![from] = mat[r], ![r] = mat[from]], piv, from + 1)

\* (L * U)[i][j], computed exactly
ProductLU(i, j) == DotExact(FactorL, FactorU, i, j, workA.rows - 1)

\* x and y differ by at most 1e-8 times the largest magnitude of an entry of A0
CloseToA(x, y) ==
    \/ x = y
    \/ \E i \in DOMAIN A0 : \E j \in DOMAIN A0[i] :
          AbsLeq(FMulExact(FAddExact(x, FNeg(y)), FromInt(InverseTolerance)), A0[i][j])

\* dgetrs has applied to the rows of B the swaps of ipiv, in ascending order
SwapsReplayed == pc = "forward" => Shown(heap, workB) = ApplySwaps(B0, ipiv, 0)

(***************************************************************************)
(* C15 as claimed: when dgetrf returns 0 on A0 the in-place result holds L *)
(* and U with L * U equal to A0 with its rows permuted by the swaps of row *)
(* k with row pivots[k]-1 for k = 0..n-1 in ascending order, and dgetrs    *)
(* applies the same sequence of swaps to the rows of B.                    *)
(***************************************************************************)
C15_FactorsEqualPermutedA ==
    /\ Factored =>
           \A i \in 0..(workA.rows - 1) : \A j \in 0..(workA.rows - 1) :
               ProductLU(i, j) = ApplySwaps(A0, ipiv, 0)[i][j]
    /\ SwapsReplayed

(***************************************************************************)
(* C15 amended: when dgetrf returns 0 on A0 the in-place result holds L    *)
(* and U with L * U equal, up to the rounding of the elimination (every    *)
(* entry within 1e-8 of the largest magnitude in A0), to A0 with its rows  *)
(* permuted by the swaps of row k with row pivots[k]-1 for k = 0..n-1 in   *)
(* ascending order; dgetrs applies exactly this sequence of swaps to the   *)
(* rows of B before substitution.                                          *)
(***************************************************************************)
C15_FactorsReproducePermutedA ==
    /\ Factored =>
           \A i \in 0..(workA.rows - 1) : \A j \in 0..(workA.rows - 1) :
               CloseToA(ProductLU(i, j), ApplySwaps(A0, ipiv, 0)[i][j])
    /\ SwapsReplayed

\* the swaps of a 3 x 3 factorization that do not commute have been applied to B
C15_Witness ==
    /\ pc = "forward" /\ A.rows = 3
    /\ ipiv = <<2, 3, 3>>
    /\ Shown(heap, workB) = ApplySwaps(B0, ipiv, 0)
    /\ Shown(heap, workB) # B0
    /\ Shown(heap, workA) # A0

\* a finite number other than 0
NonZero(x) == IsFinite(x) /\ ~FIsZero(x)

\* row i of the working A, in the current state
RowOfA(i) == [j \in 0..(workA.cols - 1) |-> getElement(heap, workA, i, j)]

\* row i of the working A, after the step
RowAfter(i) == [j \in 0..(workA.cols - 1) |-> getElement(heap', workA', i, j)]

\* a step of dgetrf leaves rows 0..k-1 as they are and, when it goes on, leaves
\* in row k the pivot row it selected, with a non-zero diagonal entry; the
\* steps of dgetrs leave the working A as it is and end with info = 0
RowsKeptStep ==
    /\ pc = "dgetrf" =>
           /\ \A i \in 0..(k - 1) : RowAfter(i) = RowOfA(i)
           /\ info' = 0 =>
                  /\ RowAfter(k) = RowOfA(ipiv'[k + 1] - 1)
                  /\ NonZero(RowAfter(k)[k])
    /\ pc \in {"dgetrs", "forward", "backward"} =>
           /\ \A i \in 0..(workA.rows - 1) : RowAfter(i) = RowOfA(i)
           /\ info' = 0
           /\ thrown' = "none"
           /\ pc' \in {"forward", "backward", "done"}

(***************************************************************************)
(* C16: once step k of dgetrf has swapped its pivot row into position k,   *)
(* rows 0..k of the matrix are never modified by a later step, so when     *)
(* dgetrf returns 0 every diagonal entry A[k,k] is non-zero; dgetrs in 'no *)
(* transpose' mode then never divides by zero and always returns 0.        *)
(***************************************************************************)
C16_DiagonalNonZero ==
    /\ [][RowsKeptStep]_vars
    /\ [](pc = "dgetrf" => \A q \in 0..(k - 1) : NonZero(RowOfA(q)[q]))
    /\ [](Factored => \A q \in 0..(workA.rows - 1) : NonZero(RowOfA(q)[q]))
    /\ []((pc = "done" /\ info = 0) =>
            \A i \in DOMAIN X : \A j \in DOMAIN X[i] : IsFinite(X[i][j]))

\* a 3 x 3 system factored with two swaps has been solved
C16_Witness ==
    /\ pc = "done" /\ info = 0 /\ A.rows = 3 /\ B.cols >= 1
    /\ result.pivots = <<2, 3, 3>>
    /\ \A q \in 0..2 : NonZero(getElement(heap, result.LU, q, q))
    /\ \A i \in DOMAIN X : \A j \in DOMAIN X[i] : IsFinite(X[i][j])

=============================================================================
